---- MODULE Spec2Model ----
(***************************************************************************)
(* Verification model of cloudflying87/calendar: the calendar document     *)
(* composition engine (apps/calendars/utils.py, models.py, views.py,       *)
(* forms.py).                                                              *)
(*                                                                         *)
(* Nine specifications share this module:                                  *)
(*   SpecMerge    CalendarPDFGenerator.combine_with_headers (page merge)   *)
(*   SpecHoliday  HolidayCalculator.get_holiday_date                       *)
(*   SpecNth      HolidayCalculator._get_nth_weekday_of_month              *)
(*   SpecGrid     generate_month_content: the month table                  *)
(*   SpecCollage  CalendarEvent.create_combined_image                      *)
(*   SpecFont     create_day_cell: the font size of the event name         *)
(*   SpecHolidayEvents  Holiday.save, Holiday.delete and                   *)
(*                HolidayManagementForm.save on one calendar               *)
(*   SpecInvite   AcceptInvitationView.get and accept_invitation for one   *)
(*                invitation, with sharing and unsharing                   *)
(*   Spec         GenerateCalendarView.post and the generator it drives    *)
(***************************************************************************)
EXTENDS Integers, Sequences, FiniteSets, TLC

VARIABLES
  \* ---- SpecMerge: one call of combine_with_headers
  mH,            \* len(header_reader.pages)
  mJan,          \* header.january_page (1-based, IntegerField without validators)
  mPc,           \* "call" before the call, "returned" or "raised" after it
  mWriter,       \* the pages handed to writer.add_page, in order
  \* ---- SpecHoliday: one call of HolidayCalculator.get_holiday_date
  hName,         \* holiday_name
  hYear,         \* year
  hResult,       \* [kind: "pending" | "none" | "date", y, m, d]
  \* ---- SpecNth: one call of HolidayCalculator._get_nth_weekday_of_month
  nYear,         \* year
  nMonth,        \* month
  nWeekday,      \* weekday, 0 = Monday .. 6 = Sunday
  nN,            \* n, 1 = first, 2 = second, ...
  nResult,       \* [kind: "pending" | "none" | "date" | "raise", y, m, d]
  \* ---- SpecGrid: one call of generate_month_content, its table
  gFw,           \* calendar module's first weekday when the call is entered
  gYear,         \* self.year
  gMonth,        \* month_num
  gTable,        \* [called, days_header, weeks, num_weeks, row_height]
  \* ---- SpecCollage: one call of CalendarEvent.create_combined_image
  cEvents,       \* the CalendarEvent rows of the calendar on the date
  cPref,         \* layout_preference
  cImage,        \* [called, created, slots]: the composite it returned
  \* ---- SpecFont: the event-name font size of two day cells
  fIn,           \* the two cells: <<[tier, len], [tier, len]>>
  fOut,          \* the font sizes computed so far, in call order
  \* ---- SpecHolidayEvents: a calendar's Holiday rows and its events
  heYear,        \* Calendar.year
  heHolidays,    \* holiday_name of the calendar's Holiday rows
  heEvents,      \* CalendarEvent rows: [month, day, event_name, origin]
  \* ---- SpecInvite: one CalendarInvitation and the requests for its token
  iInv,          \* the invitation row: [accepted, expired]
  iShares,       \* shared_with of the calendar's CalendarShare rows
  iReq,          \* per request: [pc, user, accepted (as loaded), outcome]
  \* ---- Spec: the generation view, the generator and what they touch
  firstweekday,  \* calendar module's process-wide first weekday (0 = Monday)
  year,          \* Calendar.year of the calendar being generated
  events,        \* the calendar's CalendarEvent rows
  header,        \* the calendar's CalendarHeader, or NoHeader
  records,       \* GeneratedCalendar rows
  pdfFiles,      \* stored PDF files under generated_calendars/
  tmpFiles,      \* files in the temporary directory
  callNo,        \* number of requests handled so far
  last,          \* what the last request was and how it ended
  layoutLog      \* per generation call, the layout decisions of each month

mergeVars == <<mH, mJan, mPc, mWriter>>
holidayVars == <<hName, hYear, hResult>>
nthVars == <<nYear, nMonth, nWeekday, nN, nResult>>
gridVars == <<gFw, gYear, gMonth, gTable>>
collageVars == <<cEvents, cPref, cImage>>
fontVars == <<fIn, fOut>>
holidayEventVars == <<heYear, heHolidays, heEvents>>
inviteVars == <<iInv, iShares, iReq>>
restVars == <<fontVars, holidayEventVars, inviteVars>>
genVars == <<firstweekday, year, events, header, records, pdfFiles, tmpFiles,
             callNo, last, layoutLog>>
vars == <<mH, mJan, mPc, mWriter, hName, hYear, hResult,
          nYear, nMonth, nWeekday, nN, nResult,
          gFw, gYear, gMonth, gTable,
          cEvents, cPref, cImage,
          fIn, fOut, heYear, heHolidays, heEvents, iInv, iShares, iReq,
          firstweekday, year, events, header, records, pdfFiles, tmpFiles,
          callNo, last, layoutLog>>

(***************************************************************************)
(* Dates: datetime.date and the calendar module, as the code uses them.    *)
(***************************************************************************)

\* calendar.isleap / datetime._is_leap
IsLeap(y) == (y % 4 = 0) /\ ((y % 100 # 0) \/ (y % 400 = 0))

\* calendar.monthrange(year, month)[1]
DaysInMonth(y, m) ==
  IF m = 2 THEN (IF IsLeap(y) THEN 29 ELSE 28)
  ELSE IF m \in {4, 6, 9, 11} THEN 30 ELSE 31

RECURSIVE DaysBeforeMonth(_, _)
DaysBeforeMonth(y, m) ==
  IF m <= 1 THEN 0 ELSE DaysBeforeMonth(y, m - 1) + DaysInMonth(y, m - 1)

\* date(y, m, d).toordinal()
ToOrdinal(y, m, d) ==
  (y - 1) * 365 + ((y - 1) \div 4) - ((y - 1) \div 100) + ((y - 1) \div 400)
    + DaysBeforeMonth(y, m) + d

\* date(y, m, d).weekday(): 0 = Monday .. 6 = Sunday
Weekday(y, m, d) == (ToOrdinal(y, m, d) + 6) % 7

\* date(year, month, day) raises ValueError outside these ranges
ValidDate(y, m, d) ==
  /\ y \in 1..9999
  /\ m \in 1..12
  /\ d >= 1 /\ d <= DaysInMonth(y, m)

NoDate == [kind |-> "none", y |-> 0, m |-> 0, d |-> 0]
PendingDate == [kind |-> "pending", y |-> 0, m |-> 0, d |-> 0]
MkDate(y, m, d) == [kind |-> "date", y |-> y, m |-> m, d |-> d]

\* date + timedelta(days = k), for k >= 0: carry into the following months
RECURSIVE AddDays(_, _)
AddDays(dt, k) ==
  IF dt.d + k <= DaysInMonth(dt.y, dt.m) THEN MkDate(dt.y, dt.m, dt.d + k)
  ELSE LET rest == dt.d + k - DaysInMonth(dt.y, dt.m)
       IN IF dt.m = 12 THEN AddDays(MkDate(dt.y + 1, 1, 0), rest)
          ELSE AddDays(MkDate(dt.y, dt.m + 1, 0), rest)

\* date - timedelta(days = k), for 0 <= k < dt.d + 31: borrow from the month before
SubDays(dt, k) ==
  IF dt.d - k >= 1 THEN MkDate(dt.y, dt.m, dt.d - k)
  ELSE IF dt.m = 1 THEN MkDate(dt.y - 1, 12, 31 + dt.d - k)
  ELSE MkDate(dt.y, dt.m - 1, DaysInMonth(dt.y, dt.m - 1) + dt.d - k)

(***************************************************************************)
(* HolidayCalculator (models.py)                                           *)
(***************************************************************************)

MinYear == 1900
MaxYear == 2100

\* Years at and beyond the ends of datetime.date (MINYEAR = 1, MAXYEAR = 9999)
EdgeYears == {0 - 1, 0, 1, 9999, 10000}

HolidayNames == {"new_years", "memorial_day", "independence_day", "labor_day",
                 "thanksgiving", "christmas", "easter", "mothers_day",
                 "fathers_day"}

\* An exception leaving a helper (ValueError / OverflowError of datetime.date)
Raised == [kind |-> "raise", y |-> 0, m |-> 0, d |-> 0]

\* date(y, m, d): the date, or the ValueError
DateOf(y, m, d) == IF ValidDate(y, m, d) THEN MkDate(y, m, d) ELSE Raised

\* date arithmetic leaving year 1..9999 raises OverflowError
Checked(dt) == IF dt.kind = "date" /\ dt.y \notin 1..9999 THEN Raised ELSE dt

\* The "if days_ahead <= 0" test of _get_first_monday_of_month
FirstMondayWraps(days_ahead) == days_ahead <= 0

GetFirstMondayOfMonth(y, m) ==
  LET first_day == DateOf(y, m, 1)
  IN IF first_day.kind = "raise" THEN Raised
     ELSE LET d0 == 0 - Weekday(y, m, 1)
              days_ahead == IF FirstMondayWraps(d0) THEN d0 + 7 ELSE d0
          IN Checked(AddDays(first_day, days_ahead))

\* a walk back that treats "already on Monday" as a full week
DaysBackFullWeek(weekday) == IF weekday = 0 THEN 7 ELSE weekday

\* "days_back = (last_date.weekday() - 0) % 7"
DaysBack(weekday) == (weekday - 0) % 7

GetLastMondayOfMonth(y, m) ==
  IF ~(y \in 1..9999 /\ m \in 1..12) THEN Raised
  ELSE LET last_day == DaysInMonth(y, m)
           last_date == MkDate(y, m, last_day)
           days_back == DaysBack(Weekday(y, m, last_day))
       IN IF days_back = 0 THEN last_date
          ELSE Checked(SubDays(last_date, days_back))

\* the wrap of _get_first_monday_of_month applied to the n-th weekday
NthWeekdayWrapsInclusive(days_ahead) == days_ahead <= 0

\* The "if days_ahead < 0" test of _get_nth_weekday_of_month
NthWeekdayWraps(days_ahead) == days_ahead < 0

GetNthWeekdayOfMonth(y, m, weekday, n) ==
  LET first_day == DateOf(y, m, 1)
  IN IF first_day.kind = "raise" THEN Raised
     ELSE LET d0 == weekday - Weekday(y, m, 1)
              days_ahead == IF NthWeekdayWraps(d0) THEN d0 + 7 ELSE d0
              target_date == Checked(AddDays(first_day, days_ahead + (n - 1) * 7))
          IN IF target_date.kind = "raise" THEN Raised
             ELSE IF target_date.m = m THEN target_date ELSE NoDate

\* the computus without its correction term
EasterCorrectionNone(a, h, l) == 0

\* "m = (a + 11 * h + 22 * l) // 451"
EasterCorrection(a, h, l) == (a + 11 * h + 22 * l) \div 451

\* the day of the month counted from 0
EasterDayZeroBased(h, l, m) == (h + l - 7 * m + 114) % 31

\* "day = ((h + l - 7 * m + 114) % 31) + 1"
EasterDay(h, l, m) == ((h + l - 7 * m + 114) % 31) + 1

CalculateEaster(y) ==
  LET a == y % 19
      b == y \div 100
      c == y % 100
      d == b \div 4
      e == b % 4
      f == (b + 8) \div 25
      g == (b - f + 1) \div 3
      h == (19 * a + b - d - g + 15) % 30
      i == c \div 4
      k == c % 4
      l == (32 + 2 * e + 2 * i - h - k) % 7
      m == EasterCorrection(a, h, l)
      month == (h + l - 7 * m + 114) \div 31
      day == EasterDay(h, l, m)
  IN DateOf(y, month, day)

\* the fixed dates with independence day's month and day exchanged
FixedDateSwapped(name) ==
  CASE name = "new_years" -> <<1, 1>>
    [] name = "independence_day" -> <<4, 7>>
    [] name = "christmas" -> <<12, 25>>

\* <<month, day>> of "date(year, 1, 1)", "date(year, 7, 4)", "date(year, 12, 25)"
FixedDate(name) ==
  CASE name = "new_years" -> <<1, 1>>
    [] name = "independence_day" -> <<7, 4>>
    [] name = "christmas" -> <<12, 25>>

\* a dispatch without the try/except around it
ExceptCatchesNothing(r) == FALSE

\* "except Exception: return None": every exception of a helper is caught
ExceptCatches(r) == r.kind = "raise"

\* get_holiday_date: the dispatch, with "except Exception: return None"
GetHolidayDate(name, y) ==
  LET r == CASE name = "new_years" -> DateOf(y, FixedDate(name)[1], FixedDate(name)[2])
             [] name = "memorial_day" -> GetLastMondayOfMonth(y, 5)
             [] name = "independence_day" ->
                  DateOf(y, FixedDate(name)[1], FixedDate(name)[2])
             [] name = "labor_day" -> GetFirstMondayOfMonth(y, 9)
             [] name = "thanksgiving" -> GetNthWeekdayOfMonth(y, 11, 3, 4)
             [] name = "christmas" -> DateOf(y, FixedDate(name)[1], FixedDate(name)[2])
             [] name = "easter" -> CalculateEaster(y)
             [] name = "mothers_day" -> GetNthWeekdayOfMonth(y, 5, 6, 2)
             [] name = "fathers_day" -> GetNthWeekdayOfMonth(y, 6, 6, 3)
             [] OTHER -> NoDate
  IN IF ExceptCatches(r) THEN NoDate ELSE r

(***************************************************************************)
(* CalendarPDFGenerator.combine_with_headers (utils.py)                    *)
(***************************************************************************)

NumMonths == 12
MaxHeaderPages == 15
JanBelow == 14
JanAbove == 17

\* the 1-based page number used as an index without conversion
JanuaryPageIndexNoConvert(january_page) == january_page

\* "january_page_index = header.january_page - 1  # Convert to 0-based index"
JanuaryPageIndex(january_page) == january_page - 1

\* pages[idx] of a sequence of n pages: a negative idx counts from the end,
\* and an idx outside -n..n-1 raises IndexError
IndexInRange(n, idx) == idx >= 0 - n /\ idx < n
PageAt(n, idx) == IF idx < 0 THEN n + idx ELSE idx

NewWriter == [raised |-> FALSE, pages |-> <<>>]

\* writer.add_page(reader.pages[idx]); idx is kept beside the page it yielded
AddPage(w, doc, n, idx) ==
  IF w.raised THEN w
  ELSE IF ~IndexInRange(n, idx) THEN [w EXCEPT !.raised = TRUE]
  ELSE [w EXCEPT !.pages = Append(@, [doc |-> doc, idx |-> idx,
                                       page |-> PageAt(n, idx)])]

\* "for page_idx in range(january_page_index): if page_idx < len(pages): add"
RECURSIVE FrontMatter(_, _, _, _)
FrontMatter(H, jpi, page_idx, w) ==
  IF page_idx >= jpi \/ w.raised THEN w
  ELSE FrontMatter(H, jpi, page_idx + 1,
                   IF page_idx < H THEN AddPage(w, "header", H, page_idx) ELSE w)

\* "for month in range(12)": the month's header page, then its calendar page
RECURSIVE Interleave(_, _, _, _, _)
Interleave(H, ncal, jpi, month, w) ==
  IF month >= NumMonths \/ w.raised THEN w
  ELSE LET header_page_idx == jpi + month
           w1 == IF header_page_idx < H
                 THEN AddPage(w, "header", H, header_page_idx) ELSE w
           w2 == IF month < ncal
                 THEN AddPage(w1, "calendar", ncal, month) ELSE w1
       IN Interleave(H, ncal, jpi, month + 1, w2)

\* "for page_idx in range(last_month_header_idx, len(pages)): add"
RECURSIVE BackMatter(_, _, _)
BackMatter(H, page_idx, w) ==
  IF page_idx >= H \/ w.raised THEN w
  ELSE BackMatter(H, page_idx + 1, AddPage(w, "header", H, page_idx))

\* back matter that starts on December's header page
LastMonthHeaderIdxEleven(january_page_index) == january_page_index + 11

\* "last_month_header_idx = january_page_index + 12"
LastMonthHeaderIdx(january_page_index) == january_page_index + 12

CombineWithHeaders(H, january_page, ncal) ==
  LET january_page_index == JanuaryPageIndex(january_page)
      w1 == FrontMatter(H, january_page_index, 0, NewWriter)
      w2 == Interleave(H, ncal, january_page_index, 0, w1)
      last_month_header_idx == LastMonthHeaderIdx(january_page_index)
  IN BackMatter(H, last_month_header_idx, w2)


MergeCall ==
  /\ mPc = "call"
  /\ mWriter' = CombineWithHeaders(mH, mJan, NumMonths)
  /\ mPc' = IF mWriter'.raised THEN "raised" ELSE "returned"
  /\ UNCHANGED <<mH, mJan>>


HolidayCall ==
  /\ hResult = PendingDate
  /\ hResult' = GetHolidayDate(hName, hYear)
  /\ UNCHANGED <<hName, hYear>>

\* The calls of _get_nth_weekday_of_month the model makes
MaxNth == 54
NthYears == {2023, 2024, 9999}

NthWeekdayCall ==
  /\ nResult = PendingDate
  /\ nResult' = GetNthWeekdayOfMonth(nYear, nMonth, nWeekday, nN)
  /\ UNCHANGED <<nYear, nMonth, nWeekday, nN>>


(***************************************************************************)
(* Month layout: generate_month_content, create_day_cell,                  *)
(* get_optimal_font_size (utils.py).  Lengths are in 1/100 inch.           *)
(***************************************************************************)

SundayFirst == 6
MondayFirst == 0

\* calendar.Calendar.itermonthdays / monthdayscalendar: the weeks of a month
\* whose day 1 falls on weekday day1 and which has ndays days, each week a
\* row of 7 day numbers, 0 for a day outside the month
MonthGrid(fw, day1, ndays) ==
  LET days_before == (day1 - fw) % 7
      days_after == (fw - day1 - ndays) % 7
  IN [w \in 1..((days_before + ndays + days_after) \div 7) |->
        [c \in 1..7 |->
           IF (w - 1) * 7 + c <= days_before
              \/ (w - 1) * 7 + c > days_before + ndays
           THEN 0 ELSE (w - 1) * 7 + c - days_before]]

\* calendar.monthcalendar(year, month) under first weekday fw
MonthCalendar(fw, y, m) == MonthGrid(fw, Weekday(y, m, 1), DaysInMonth(y, m))

\* a table without the four-week row
RowHeightNoFourWeeks(num_weeks) == IF num_weeks = 6 THEN 110 ELSE 130

\* "if num_weeks == 4 ... elif num_weeks == 6 ... else  # 5 weeks"
RowHeight(num_weeks) ==
  IF num_weeks = 4 THEN 165 ELSE IF num_weeks = 6 THEN 110 ELSE 130

\* one table of sizes for every month
GetOptimalFontSizeOneTable(current_month_weeks, text_length, max_width_chars) ==
  IF text_length <= max_width_chars THEN 10
  ELSE IF 2 * text_length <= 3 * max_width_chars THEN 9 ELSE 8

\* get_optimal_font_size(text, max_width_chars), text_length = len(text)
GetOptimalFontSize(current_month_weeks, text_length, max_width_chars) ==
  IF current_month_weeks = 6
  THEN (IF text_length <= max_width_chars THEN 8
        ELSE IF 2 * text_length <= 3 * max_width_chars THEN 7 ELSE 6)
  ELSE (IF text_length <= max_width_chars THEN 10
        ELSE IF 2 * text_length <= 3 * max_width_chars THEN 9 ELSE 8)

\* The fontSize of the event name in create_day_cell: "font_size =
\* optimal_font_size" in a 6-week month, "optimal_font_size + 2" otherwise
EventFontSize(current_month_weeks, text_length) ==
  IF current_month_weeks = 6
  THEN GetOptimalFontSize(current_month_weeks, text_length, 15)
  ELSE GetOptimalFontSize(current_month_weeks, text_length, 15) + 2

\* The name lengths and week tiers of the font model
MaxNameLen == 30
WeekTiers == {4, 5, 6}

FontCall ==
  /\ Len(fOut) < Len(fIn)
  /\ fOut' = Append(fOut, EventFontSize(fIn[Len(fOut) + 1].tier,
                                        fIn[Len(fOut) + 1].len))
  /\ UNCHANGED fIn

\* the events of one day ordered by their last modification
RECURSIVE SortByUpdated(_)
SortByUpdated(S) ==
  IF S = {} THEN <<>>
  ELSE LET e == CHOOSE x \in S : \A z \in S : x.upd <= z.upd
       IN <<e>> \o SortByUpdated(S \ {e})

\* The events of one day, in Meta.ordering (..., 'created_at') order
RECURSIVE SortBySeq(_)
SortBySeq(S) ==
  IF S = {} THEN <<>>
  ELSE LET e == CHOOSE x \in S : \A z \in S : x.seq <= z.seq
       IN <<e>> \o SortBySeq(S \ {e})

EventsOn(evs, m, d) == SortBySeq({e \in evs : e.month = m /\ e.day = d})

\* the names of a date joined from the last created event to the first
CombinedDisplayNameReversed(evs) ==
  LET es == SortBySeq(evs)
  IN [i \in 1..Len(es) |-> es[Len(es) + 1 - i].seq]

\* get_combined_display_name: "names = [event.get_display_name() for event
\* in events]; return ' & '.join(names)" over get_events_for_date, each
\* display name stood for by its event
CombinedDisplayName(evs) ==
  LET es == SortBySeq(evs)
  IN [i \in 1..Len(es) |-> es[i].seq]

\* len(" & ".join(names)) for a day's events
RECURSIVE JoinedLen(_)
JoinedLen(es) ==
  IF Len(es) = 0 THEN 0
  ELSE IF Len(es) = 1 THEN es[1].nameLen
  ELSE es[1].nameLen + 3 + JoinedLen(Tail(es))

\* create_combined_image(..., target_width=320, target_height=200, ...)
TargetWidth == 320
TargetHeight == 200

\* UserEventPreferences.IMAGE_LAYOUT_CHOICES
LayoutPreferences == {"auto", "side_by_side", "top_bottom", "grid"}

\* a 2x2 grid filled column by column
SlotBoxColumnMajor(num_events, i, layout_preference) ==
  IF num_events >= 4
  THEN <<(i \div 2) * (TargetWidth \div 2), (i % 2) * (TargetHeight \div 2),
         TargetWidth \div 2, TargetHeight \div 2>>
  ELSE IF num_events = 3
  THEN (IF i = 0 THEN <<0, 0, TargetWidth, TargetHeight \div 2>>
        ELSE <<(i - 1) * (TargetWidth \div 2), TargetHeight \div 2,
               TargetWidth \div 2, TargetHeight \div 2>>)
  ELSE IF layout_preference = "top_bottom"
  THEN <<0, i * (TargetHeight \div 2), TargetWidth, TargetHeight \div 2>>
  ELSE <<i * (TargetWidth \div 2), 0, TargetWidth \div 2, TargetHeight>>

\* Where combined_img.paste puts the resized image of event i (0-based) of
\* num_events: <<x, y, width, height>>
SlotBox(num_events, i, layout_preference) ==
  LET half_width == TargetWidth \div 2
      half_height == TargetHeight \div 2
  IN IF num_events = 2
     THEN (IF layout_preference = "top_bottom"
           THEN <<0, i * half_height, TargetWidth, half_height>>
           ELSE <<i * half_width, 0, half_width, TargetHeight>>)
     ELSE IF num_events = 3
     THEN (IF i = 0 THEN <<0, 0, TargetWidth, half_height>>
           ELSE <<(i - 1) * half_width, TargetHeight \div 2, half_width, half_height>>)
     ELSE <<(i % 2) * half_width, (i \div 2) * half_height, half_width, half_height>>

\* the slot of an image whose failure to open escapes the loop
SlotPasteUnguarded(e) == IF e.image \in {"ok", "none"} THEN e.image ELSE "raise"

\* One round of "if event.image: try: ... paste ... except: continue": the
\* event's image is pasted ("ok"), or the slot keeps the white background
SlotPaste(e) == IF e.image = "ok" THEN "ok" ELSE "none"

NoComposite == [called |-> TRUE, created |-> FALSE, slots |-> <<>>]

\* create_combined_image for the events of the date in query order:
\* None for one event or fewer, else the composite, slot by slot
\* [event: the created_at rank of the event the slot belongs to,
\*  source: that rank when its image was pasted, 0 for background, box]
CreateCombinedImage(es, layout_preference) ==
  IF Len(es) <= 1 THEN NoComposite
  ELSE LET num_events == Len(es)
           shown == IF num_events >= 4 THEN 4 ELSE num_events
       IN IF \E i \in 1..shown : SlotPaste(es[i]) = "raise"
          THEN \* "except Exception as e: ... return None"
               NoComposite
          ELSE [called |-> TRUE, created |-> TRUE,
                slots |-> [i \in 1..shown |->
                             [event |-> es[i].seq,
                              source |-> IF SlotPaste(es[i]) = "ok"
                                         THEN es[i].seq ELSE 0,
                              box |-> SlotBox(num_events, i - 1, layout_preference)]]]

\* The dates of the collage model: six events on January 15
CollagePool ==
  {[month |-> 1, day |-> 15, seq |-> 1, upd |-> 9, image |-> "ok", nameLen |-> 8],
   [month |-> 1, day |-> 15, seq |-> 2, upd |-> 5, image |-> "ok", nameLen |-> 20],
   [month |-> 1, day |-> 15, seq |-> 3, upd |-> 7, image |-> "corrupt", nameLen |-> 5],
   [month |-> 1, day |-> 15, seq |-> 4, upd |-> 1, image |-> "missing", nameLen |-> 5],
   [month |-> 1, day |-> 15, seq |-> 5, upd |-> 3, image |-> "ok", nameLen |-> 5],
   [month |-> 1, day |-> 15, seq |-> 6, upd |-> 2, image |-> "none", nameLen |-> 5]}

NotCalled == [called |-> FALSE, created |-> FALSE, slots |-> <<>>]

CollageCall ==
  /\ ~cImage.called
  /\ cImage' = CreateCombinedImage(EventsOn(cEvents, 1, 15), cPref)
  /\ UNCHANGED <<cEvents, cPref>>

\* "except UserEventPreferences.DoesNotExist: layout_preference = 'auto'":
\* the owner of the model's calendars has no preferences row
NoPreferencesLayout == "auto"

\* The thumbnail sizes of create_day_cell: <<process w, process h, display w, display h>>
ThumbSizes(num_weeks) ==
  IF num_weeks = 4 THEN <<200, 150, 105, 80>>
  ELSE IF num_weeks = 6 THEN <<150, 110, 80, 60>>
  ELSE <<180, 130, 95, 70>>

\* create_day_cell(day, events_list) with self.current_month_weeks = cmw.
\* An event's image is "ok", "none" (no image), "missing" (no file at its
\* path), "corrupt" (Image.open raises) or "unsavable" (a mode JPEG cannot
\* store, so img.save raises).  tier is the week count the cell read;
\* tracked/untracked are the temporary files it created, by whether it
\* appended them to self._temp_files.
CreateDayCell(cmw, day, es) ==
  LET multi == Len(es) > 1
      \* more than one event: create_combined_image saves a composite JPEG and
      \* the cell opens that; one event: the event's own image
      collage == IF multi THEN CreateCombinedImage(es, NoPreferencesLayout)
                 ELSE NotCalled
      is_combined == multi /\ collage.created
      \* "next((e for e in events_list if e.image), events_list[0])"
      withImage == {i \in 1..Len(es) : es[i].image # "none"}
      event == IF multi /\ ~is_combined /\ withImage # {}
               THEN es[CHOOSE i \in withImage : \A j \in withImage : i <= j]
               ELSE es[1]
      img == IF is_combined THEN "ok" ELSE event.image
      sizes == ThumbSizes(cmw)
      nameLen == IF multi THEN JoinedLen(es) ELSE event.nameLen
      \* "if len(events_list) > 1: display_name = CalendarEvent.
      \* get_combined_display_name(...) else: event.get_display_name()"
      names == IF multi THEN CombinedDisplayName({es[i] : i \in 1..Len(es)})
               ELSE <<event.seq>>
      optimal == GetOptimalFontSize(cmw, nameLen, 15)
      font_size == EventFontSize(cmw, nameLen)
      leading == IF cmw = 6 THEN optimal + 1 ELSE optimal + 3
      available_height == RowHeight(cmw)
      \* len(cell_data): overlay + name, or day + name, or day + placeholder + name
      ncell == IF img = "ok" THEN 2 ELSE IF img = "none" THEN 2 ELSE 3
      row_heights == IF ncell = 3 THEN <<15, available_height - 60, 45>>
                     ELSE IF img # "none" THEN <<available_height - 45, 45>>
                     ELSE <<15, available_height - 15>>
  IN [day |-> day,
      tier |-> cmw,
      thumb |-> IF img = "ok" THEN sizes ELSE <<0, 0, 0, 0>>,
      names |-> names,
      font_size |-> font_size,
      leading |-> leading,
      row_heights |-> row_heights,
      \* "Image" when os.path.exists fails, "Error" from "except Exception"
      placeholder |-> IF img = "missing" THEN "image"
                      ELSE IF img \in {"corrupt", "unsavable"} THEN "error"
                      ELSE "none",
      collage |-> collage,
      tracked |-> IF img = "ok"
                  THEN (IF is_combined THEN {"thumb", "collage"} ELSE {"thumb"})
                  ELSE {},
      \* img.save raising after NamedTemporaryFile(delete=False) was created
      untracked |-> IF img = "unsavable" THEN {"thumb"} ELSE {}]

\* a month laid out under whatever first weekday the process has
GridFirstWeekdayKept(fw) == fw

\* "cal.setfirstweekday(6)  # 6 = Sunday as first day" (line 115): the first
\* weekday the grid is laid out under, whatever it was on entry
GridFirstWeekday(fw) == SundayFirst

\* "self.current_month_weeks = len(cal_obj)" (line 104): the week count is
\* taken under the first weekday in force when the month is entered
CurrentMonthWeeks(fw, y, m) == Len(MonthCalendar(fw, y, m))

\* The rest of generate_month_content once both week counts are known
MonthLayout(y, m, evs, current_month_weeks, num_weeks) ==
  [month |-> m,
   current_month_weeks |-> current_month_weeks,
   num_weeks |-> num_weeks,
   row_height |-> RowHeight(num_weeks),
   cells |-> {CreateDayCell(current_month_weeks, d, EventsOn(evs, m, d)) :
                d \in {e.day : e \in {x \in evs : x.month = m}}
                        \cap 1..DaysInMonth(y, m)}]

\* generate_month_content(month_num), entered under first weekday fw: the
\* layout decisions of the month.  num_weeks is taken after
\* "cal.setfirstweekday(6)" (line 115), current_month_weeks before it.
GenerateMonthContent(fw, y, m, evs) ==
  MonthLayout(y, m, evs, CurrentMonthWeeks(fw, y, m),
              Len(MonthCalendar(GridFirstWeekday(fw), y, m)))

\* The first weekday in force when month m of a generation call is entered:
\* month 1 sees what the process had, every later month what
\* "cal.setfirstweekday(6)" (line 115) of the month before left
FirstWeekdayEntering(fw, m) == IF m = 1 THEN fw ELSE GridFirstWeekday(fw)

\* "for month_num in range(1, 13)": the months in order
MonthLoop(fw, y, evs) ==
  [m \in 1..NumMonths |-> GenerateMonthContent(FirstWeekdayEntering(fw, m), y, m, evs)]

\* "days_header = ['SUN', 'MON', 'TUE', 'WED', 'THU', 'FRI', 'SAT']"
DaysHeader == <<"SUN", "MON", "TUE", "WED", "THU", "FRI", "SAT">>

NoTable == [called |-> FALSE, days_header |-> <<>>, weeks |-> <<>>,
            num_weeks |-> 0, row_height |-> 0]

\* The table generate_month_content builds for a month without events:
\* the header row, the week rows (0 for the empty cell of a day outside the
\* month), and the row geometry handed to Table(...)
MonthTable(fw, y, m) ==
  [called |-> TRUE,
   days_header |-> DaysHeader,
   weeks |-> MonthCalendar(GridFirstWeekday(fw), y, m),
   num_weeks |-> GenerateMonthContent(fw, y, m, {}).num_weeks,
   row_height |-> GenerateMonthContent(fw, y, m, {}).row_height]

GridCall ==
  /\ ~gTable.called
  /\ gTable' = MonthTable(gFw, gYear, gMonth)
  /\ gFw' = GridFirstWeekday(gFw)
  /\ UNCHANGED <<gYear, gMonth>>

\* The calendars of the model: their years and the events they may hold
Years == {2023, 2026}

EventPool ==
  {[month |-> 1, day |-> 15, seq |-> 1, upd |-> 4, image |-> "ok", nameLen |-> 8],
   [month |-> 1, day |-> 15, seq |-> 2, upd |-> 2, image |-> "none", nameLen |-> 20],
   [month |-> 3, day |-> 10, seq |-> 3, upd |-> 3, image |-> "missing", nameLen |-> 30],
   [month |-> 1, day |-> 15, seq |-> 4, upd |-> 1, image |-> "corrupt", nameLen |-> 5]}

\* MonthLoop over the calendars of the model, evaluated once: <<fw, y, evs, months>>
MonthsTable ==
  {<<fw, y, evs, MonthLoop(fw, y, evs)>> :
     fw \in {MondayFirst, SundayFirst}, y \in Years, evs \in SUBSET EventPool}

RenderMonths(fw, y, evs) ==
  (CHOOSE t \in MonthsTable : t[1] = fw /\ t[2] = y /\ t[3] = evs)[4]

(***************************************************************************)
(* The three generation modes (utils.py).  A temporary file is             *)
(* <<call, kind, month, day>>; a mode yields what it returned or raised,   *)
(* the months it rendered and the temporary files it left behind.          *)
(***************************************************************************)

NoHeader == [present |-> FALSE, january_page |-> 0, pages |-> 0, readable |-> FALSE]
NoArtifact == [builtBy |-> "none", npages |-> 0]

CellTemps(call, months, tracked) ==
  UNION {UNION {{<<call, k, months[i].month, c.day>> :
                   k \in (IF tracked THEN c.tracked ELSE c.untracked)} :
                c \in months[i].cells} : i \in 1..Len(months)}

\* cleanup_temp_files(): unlinks what self._temp_files lists
CleanupTempFiles(files, call, months) == files \ CellTemps(call, months, TRUE)

\* Every temporary file the cells of a call created
AllCellTemps(call, months) ==
  CellTemps(call, months, TRUE) \cup CellTemps(call, months, FALSE)

\* generate_calendar_only once the 12 months are rendered
BuildCalendarOnly(call, months, buildFails) ==
  IF buildFails
  THEN \* doc.build(story) raises: nothing after it runs
       [raised |-> TRUE, error |-> "build", fw |-> SundayFirst,
        months |-> months,
        tmpLeft |-> {<<call, "pdf", 0, 0>>} \cup AllCellTemps(call, months),
        artifact |-> NoArtifact]
  ELSE \* os.unlink(tmp_file.name); self.cleanup_temp_files()
       [raised |-> FALSE, error |-> "", fw |-> SundayFirst,
        months |-> months,
        tmpLeft |-> CleanupTempFiles(AllCellTemps(call, months), call, months),
        artifact |-> [builtBy |-> "calendar_only", npages |-> NumMonths]]

GenerateCalendarOnly(call, fw, y, evs, buildFails) ==
  BuildCalendarOnly(call, RenderMonths(fw, y, evs), buildFails)

\* The end of combine_with_headers, w being what the merge loops produced
WriteCombined(call, r, w) ==
  IF w.raised
  THEN \* pages[idx] raised IndexError: combined_file is never unlinked
       [r EXCEPT !.raised = TRUE, !.error = "index",
                 !.tmpLeft = @ \cup {<<call, "merged_pdf", 0, 0>>},
                 !.artifact = NoArtifact]
  ELSE [r EXCEPT !.artifact = [builtBy |-> "with_headers",
                               npages |-> Len(w.pages)]]

\* generate_with_headers after the header check: r is what
\* generate_calendar_only yielded; combine_with_headers(calendar_pdf) follows
CombineStep(call, hdr, r) ==
  IF r.raised THEN r
  ELSE IF ~hdr.readable
  THEN \* PdfReader(header_file) raises on a malformed document
       [r EXCEPT !.raised = TRUE, !.error = "header",
                 !.tmpLeft = @ \cup {<<call, "merged_pdf", 0, 0>>},
                 !.artifact = NoArtifact]
  ELSE WriteCombined(call, r,
         CombineWithHeaders(hdr.pages, hdr.january_page, r.artifact.npages))

\* a generator that never tests for the header
HeaderCheckAlwaysPasses(hdr) == TRUE

\* "if not hasattr(self.calendar, 'header'): raise ValueError(...)"
HeaderCheckPasses(hdr) == hdr.present

NoHeaderError(fw) ==
  [raised |-> TRUE, error |-> "no_header", fw |-> fw, months |-> <<>>,
   tmpLeft |-> {}, artifact |-> NoArtifact]

GenerateWithHeaders(call, fw, y, evs, hdr, buildFails) ==
  IF ~HeaderCheckPasses(hdr) THEN NoHeaderError(fw)
  ELSE CombineStep(call, hdr, GenerateCalendarOnly(call, fw, y, evs, buildFails))

\* generate_combined_spread once the 12 month spreads are rendered
BuildSpread(call, months, buildFails) ==
  IF buildFails
  THEN [raised |-> TRUE, error |-> "build", fw |-> SundayFirst,
        months |-> months,
        tmpLeft |-> {<<call, "pdf", 0, 0>>} \cup AllCellTemps(call, months),
        artifact |-> NoArtifact]
  ELSE \* os.unlink(spread_file.name); cleanup_temp_files is not called
       [raised |-> FALSE, error |-> "", fw |-> SundayFirst,
        months |-> months, tmpLeft |-> AllCellTemps(call, months),
        artifact |-> [builtBy |-> "combined", npages |-> NumMonths]]

GenerateCombinedSpread(call, fw, y, evs, hdr, buildFails) ==
  IF ~HeaderCheckPasses(hdr) THEN NoHeaderError(fw)
  ELSE IF ~hdr.readable
  THEN \* PdfReader(header_file) raises: spread_file is never unlinked
       [raised |-> TRUE, error |-> "header", fw |-> fw, months |-> <<>>,
        tmpLeft |-> {<<call, "pdf", 0, 0>>}, artifact |-> NoArtifact]
  ELSE IF hdr.pages = 0
  THEN \* create_month_spread: "... % len(header_reader.pages)" divides by zero
       [raised |-> TRUE, error |-> "zero_pages", fw |-> fw, months |-> <<>>,
        tmpLeft |-> {<<call, "pdf", 0, 0>>}, artifact |-> NoArtifact]
  ELSE BuildSpread(call, RenderMonths(fw, y, evs), buildFails)

(***************************************************************************)
(* The views (views.py): GenerateCalendarView.post, HeaderUploadView.post, *)
(* DeleteGeneratedPDFView.post                                             *)
(***************************************************************************)

MaxCalls == 2

GenerationTypes == {"calendar_only", "with_headers", "combined"}
RequestTypes == GenerationTypes \cup {"poster"}
RequestActions == {"generate", "overwrite", "create_new", "replace"}

HeaderPool ==
  {[present |-> TRUE, january_page |-> 2, pages |-> 14, readable |-> TRUE],
   [present |-> TRUE, january_page |-> 2, pages |-> 14, readable |-> FALSE]}

Idle == [call |-> 0, gtype |-> "", action |-> "", outcome |-> "idle",
         gen |-> "none", error |-> "", hadHeader |-> FALSE,
         hadExisting |-> FALSE, rendered |-> 0, builtBy |-> "none"]

\* The generator method the view calls for a generation_type (lines 812-817)
Dispatch(generation_type) ==
  CASE generation_type = "calendar_only" -> "generate_calendar_only"
    [] generation_type = "with_headers" -> "generate_combined_spread"
    [] generation_type = "combined" -> "generate_with_headers"
    [] OTHER -> "invalid"

RunGenerator(method, call, fw, y, evs, hdr, buildFails) ==
  CASE method = "generate_calendar_only" ->
         GenerateCalendarOnly(call, fw, y, evs, buildFails)
    [] method = "generate_combined_spread" ->
         GenerateCombinedSpread(call, fw, y, evs, hdr, buildFails)
    [] method = "generate_with_headers" ->
         GenerateWithHeaders(call, fw, y, evs, hdr, buildFails)

\* "GeneratedCalendar.objects.filter(calendar=..., generation_type=...)"
Existing(recs, generation_type) == {r \in recs : r.gtype = generation_type}

NewRecord(call, generation_type, artifact) ==
  [id |-> call, gtype |-> generation_type, file |-> call,
   builtBy |-> artifact.builtBy, npages |-> artifact.npages]

\* Lines 823-863: what the view stores once the generator returned pdf_file.
\* Saving a record first writes its file to storage; an INSERT that breaks
\* unique_together (calendar, generation_type) then raises IntegrityError.
Persist(recs, files, call, generation_type, action, artifact) ==
  LET existing == Existing(recs, generation_type)
      oldFiles == {r.file : r \in existing}
  IN IF action = "overwrite" /\ existing # {}
     THEN [records |-> (recs \ existing) \cup
                       {[r EXCEPT !.file = call, !.builtBy = artifact.builtBy,
                                  !.npages = artifact.npages] : r \in existing},
           pdfFiles |-> (files \ oldFiles) \cup {call},
           outcome |-> "overwritten"]
     ELSE IF action = "create_new"
     THEN [records |-> (recs \ existing) \cup
                       {NewRecord(call, generation_type, artifact)},
           pdfFiles |-> (files \ oldFiles) \cup {call},
           outcome |-> "created"]
     ELSE IF existing # {}
     THEN [records |-> recs, pdfFiles |-> files \cup {call},
           outcome |-> "error"]
     ELSE [records |-> recs \cup {NewRecord(call, generation_type, artifact)},
           pdfFiles |-> files \cup {call},
           outcome |-> "generated"]

AfterGeneratorPersistAlways(g, recs, files, call, generation_type, action) ==
  Persist(recs, files, call, generation_type, action, g.artifact)

\* The try/except of the view (lines 809-868): a generator that raised
\* leaves the "except Exception" branch, which stores nothing
AfterGenerator(g, recs, files, call, generation_type, action) ==
  IF g.raised
  THEN [records |-> recs, pdfFiles |-> files, outcome |-> "error"]
  ELSE Persist(recs, files, call, generation_type, action, g.artifact)

\* a view that never asks
ConflictNever(existing, action) == FALSE

\* "if existing_calendar and action == 'generate'"
Conflict(existing, action) == existing # {} /\ action = "generate"

\* GenerateCalendarView.post
Post(generation_type, action, buildFails) ==
  /\ callNo < MaxCalls
  /\ callNo' = callNo + 1
  /\ LET call == callNo + 1
         existing == Existing(records, generation_type)
         method == Dispatch(generation_type)
         req == [Idle EXCEPT !.call = call, !.gtype = generation_type,
                             !.action = action, !.hadHeader = header.present,
                             !.hadExisting = existing # {}]
     IN IF Conflict(existing, action)
        THEN \* render pdf_generation_conflict.html
             /\ last' = [req EXCEPT !.outcome = "conflict"]
             /\ UNCHANGED <<firstweekday, records, pdfFiles, tmpFiles, layoutLog>>
        ELSE IF method = "invalid"
        THEN \* messages.error(request, "Invalid generation type.")
             /\ last' = [req EXCEPT !.outcome = "invalid"]
             /\ UNCHANGED <<firstweekday, records, pdfFiles, tmpFiles, layoutLog>>
        ELSE \E g \in {RunGenerator(method, call, firstweekday, year, events,
                                    header, buildFails)} :
             \E p \in {AfterGenerator(g, records, pdfFiles, call,
                                      generation_type, action)} :
               /\ firstweekday' = g.fw
               /\ tmpFiles' = tmpFiles \cup g.tmpLeft
               /\ layoutLog' = IF Len(g.months) > 0
                               THEN Append(layoutLog,
                                           [call |-> call, method |-> method,
                                            raised |-> g.raised,
                                            months |-> g.months])
                               ELSE layoutLog
               /\ records' = p.records
               /\ pdfFiles' = p.pdfFiles
               /\ last' = [req EXCEPT
                             !.outcome = p.outcome,
                             !.gen = IF g.raised THEN "raised" ELSE "returned",
                             !.error = IF g.raised THEN g.error
                                       ELSE IF p.outcome = "error"
                                       THEN "integrity" ELSE "",
                             !.rendered = Len(g.months),
                             !.builtBy = g.artifact.builtBy]
  /\ UNCHANGED <<year, events, header>>

\* HeaderUploadView.post: CalendarHeader.objects.update_or_create(...)
UploadHeader(h) ==
  /\ header # h
  /\ header' = h
  /\ UNCHANGED <<firstweekday, year, events, records, pdfFiles, tmpFiles,
                 callNo, last, layoutLog>>

\* DeleteGeneratedPDFView.post: remove the file, delete the record
DeleteGeneratedPDF(r) ==
  /\ r \in records
  /\ records' = records \ {r}
  /\ pdfFiles' = pdfFiles \ {r.file}
  /\ UNCHANGED <<firstweekday, year, events, header, tmpFiles, callNo, last,
                 layoutLog>>


(***************************************************************************)
(* Holiday rows and the CalendarEvent rows they create (models.py,         *)
(* forms.py)                                                               *)
(***************************************************************************)

\* Holiday.HOLIDAY_CHOICES, in order
HolidayChoices == <<"new_years", "easter", "mothers_day", "fathers_day",
                    "memorial_day", "independence_day", "labor_day",
                    "thanksgiving", "christmas">>

\* get_holiday_name_display()
HolidayDisplayName(name) ==
  CASE name = "new_years" -> "New Year's Day"
    [] name = "easter" -> "Easter"
    [] name = "mothers_day" -> "Mother's Day"
    [] name = "fathers_day" -> "Father's Day"
    [] name = "memorial_day" -> "Memorial Day"
    [] name = "independence_day" -> "Independence Day"
    [] name = "labor_day" -> "Labor Day"
    [] name = "thanksgiving" -> "Thanksgiving"
    [] name = "christmas" -> "Christmas"

\* The holidays the model's forms and requests select among
ManagedHolidays == {"easter", "independence_day", "labor_day", "christmas"}

\* An event the user uploaded for July 4
UserEvent == [month |-> 7, day |-> 4, event_name |-> "Birthday", origin |-> "user"]

\* The second half of Holiday.save: CalendarEvent.objects.update_or_create(
\* calendar, month, day, defaults={event_name, ...}) for the holiday's date
SaveHolidayEvent(evs, name, y) ==
  LET dt == GetHolidayDate(name, y)
      matches == {e \in evs : e.month = dt.m /\ e.day = dt.d}
  IN IF dt.kind # "date" THEN evs
     ELSE IF matches = {}
     THEN evs \cup {[month |-> dt.m, day |-> dt.d,
                     event_name |-> HolidayDisplayName(name),
                     origin |-> "holiday"]}
     ELSE IF Cardinality(matches) = 1
     THEN (evs \ matches) \cup
          {[e EXCEPT !.event_name = HolidayDisplayName(name)] : e \in matches}
     ELSE \* MultipleObjectsReturned
          evs

\* The first half of Holiday.delete: the event of the holiday's date that
\* carries the holiday's display name is deleted (update_or_create keeps
\* one event per holiday date here, so get() finds at most one)
DeleteHolidayEvent(evs, name, y) ==
  LET dt == GetHolidayDate(name, y)
  IN IF dt.kind # "date" THEN evs
     ELSE evs \ {e \in evs : /\ e.month = dt.m /\ e.day = dt.d
                             /\ e.event_name = HolidayDisplayName(name)}

\* "for holiday_code, holiday_name in Holiday.HOLIDAY_CHOICES: if
\* cleaned_data.get(include_...): Holiday.objects.create(...)", from choice k
RECURSIVE CreateSelected(_, _, _, _)
CreateSelected(evs, selected, y, k) ==
  IF k > Len(HolidayChoices) THEN evs
  ELSE CreateSelected(IF HolidayChoices[k] \in selected
                      THEN SaveHolidayEvent(evs, HolidayChoices[k], y) ELSE evs,
                      selected, y, k + 1)

\* Holiday.save of a holiday of the calendar, new or already stored
\* (unique_together: one row per calendar and holiday_name)
HolidaySave(name) ==
  /\ heHolidays' = heHolidays \cup {name}
  /\ heEvents' = SaveHolidayEvent(heEvents, name, heYear)
  /\ UNCHANGED heYear

\* holiday.delete() on one instance
HolidayDelete(name) ==
  /\ name \in heHolidays
  /\ heEvents' = DeleteHolidayEvent(heEvents, name, heYear)
  /\ heHolidays' = heHolidays \ {name}
  /\ UNCHANGED heYear

\* HolidayManagementForm.save(calendar): "Holiday.objects.filter(calendar=
\* calendar).delete()" is a queryset delete, which removes the rows without
\* calling Holiday.delete; then the selected holidays are created
HolidayFormSave(selected) ==
  /\ heHolidays' = selected
  /\ heEvents' = CreateSelected(heEvents, selected, heYear, 1)
  /\ UNCHANGED heYear

(***************************************************************************)
(* Invitations (models.py, views.py): AcceptInvitationView.get,            *)
(* CalendarInvitation.accept_invitation, CalendarShareView.post,           *)
(* CalendarUnshareView.post                                                *)
(***************************************************************************)

\* The requests in flight for the invitation's token, and the users whose
\* email is the invitation's
Requests == {1, 2}
Invitees == {"u1", "u2"}

NoRequest == [pc |-> "idle", user |-> "", accepted |-> FALSE, outcome |-> ""]

\* "if self.accepted: raise ValueError(...)" / "if invitation.accepted:"
AlreadyAccepted(invitation) == invitation.accepted

\* AcceptInvitationView.get up to the call of accept_invitation: the row is
\* loaded, and an expired or accepted invitation is answered with a message
InviteLoad(r, u) ==
  /\ iReq[r].pc = "idle"
  /\ iReq' = [iReq EXCEPT ![r] =
                IF iInv.expired
                THEN [NoRequest EXCEPT !.user = u, !.outcome = "expired"]
                ELSE IF AlreadyAccepted(iInv)
                THEN [NoRequest EXCEPT !.user = u, !.outcome = "already_accepted"]
                ELSE [pc |-> "loaded", user |-> u, accepted |-> iInv.accepted,
                      outcome |-> ""]]
  /\ UNCHANGED <<iInv, iShares>>

\* invitation.accept_invitation(request.user) on the instance the view
\* loaded: is_expired() reads the clock, self.accepted the loaded value;
\* get_or_create of the share; self.accepted = True; self.save()
InviteAccept(r) ==
  /\ iReq[r].pc = "loaded"
  /\ IF iInv.expired
     THEN /\ iReq' = [iReq EXCEPT ![r] = [@ EXCEPT !.pc = "idle",
                                                   !.outcome = "ValueError_expired"]]
          /\ UNCHANGED <<iInv, iShares>>
     ELSE IF AlreadyAccepted(iReq[r])
     THEN /\ iReq' = [iReq EXCEPT ![r] = [@ EXCEPT !.pc = "idle",
                                                   !.outcome = "ValueError_accepted"]]
          /\ UNCHANGED <<iInv, iShares>>
     ELSE /\ iShares' = iShares \cup {iReq[r].user}
          /\ iInv' = [iInv EXCEPT !.accepted = TRUE]
          /\ iReq' = [iReq EXCEPT ![r] = [@ EXCEPT !.pc = "idle",
                                                   !.accepted = TRUE,
                                                   !.outcome = "accepted"]]

\* timezone.now() passes expires_at
InviteExpire ==
  /\ ~iInv.expired
  /\ iInv' = [iInv EXCEPT !.expired = TRUE]
  /\ UNCHANGED <<iShares, iReq>>

\* CalendarShareView.post for an existing user: a direct share, unless the
\* calendar is already shared with that user
DirectShare(u) ==
  /\ u \notin iShares
  /\ iShares' = iShares \cup {u}
  /\ UNCHANGED <<iInv, iReq>>

\* CalendarUnshareView.post: share.delete()
Unshare(u) ==
  /\ u \in iShares
  /\ iShares' = iShares \ {u}
  /\ UNCHANGED <<iInv, iReq>>

(***************************************************************************)
(* Specifications                                                          *)
(***************************************************************************)


Init ==
  /\ firstweekday = MondayFirst
  /\ year \in Years
  /\ events \in SUBSET EventPool
  /\ header = NoHeader
  /\ records = {}
  /\ pdfFiles = {}
  /\ tmpFiles = {}
  /\ callNo = 0
  /\ last = Idle
  /\ layoutLog = <<>>
  /\ mH = 0 /\ mJan = 1 /\ mPc = "idle" /\ mWriter = NewWriter
  /\ hName = "" /\ hYear = 0 /\ hResult = NoDate
  /\ nYear = 0 /\ nMonth = 1 /\ nWeekday = 0 /\ nN = 1 /\ nResult = NoDate
  /\ gFw = MondayFirst /\ gYear = 0 /\ gMonth = 1 /\ gTable = NoTable
  /\ cEvents = {} /\ cPref = "auto" /\ cImage = NotCalled
  /\ fIn = <<>> /\ fOut = <<>>
  /\ heYear = 0 /\ heHolidays = {} /\ heEvents = {}
  /\ iInv = [accepted |-> FALSE, expired |-> FALSE] /\ iShares = {}
  /\ iReq = [r \in Requests |-> NoRequest]

Next ==
  \/ \E t \in RequestTypes, a \in RequestActions, f \in BOOLEAN :
       Post(t, a, f) /\ UNCHANGED mergeVars /\ UNCHANGED holidayVars /\ UNCHANGED nthVars /\ UNCHANGED gridVars /\ UNCHANGED collageVars /\ UNCHANGED restVars
  \/ \E h \in HeaderPool :
       UploadHeader(h) /\ UNCHANGED mergeVars /\ UNCHANGED holidayVars /\ UNCHANGED nthVars /\ UNCHANGED gridVars /\ UNCHANGED collageVars /\ UNCHANGED restVars
  \/ \E r \in records :
       DeleteGeneratedPDF(r) /\ UNCHANGED mergeVars /\ UNCHANGED holidayVars /\ UNCHANGED nthVars /\ UNCHANGED gridVars /\ UNCHANGED collageVars /\ UNCHANGED restVars

Spec == Init /\ [][Next]_vars

InitMerge ==
  /\ mH \in 0..MaxHeaderPages
  /\ mJan \in (0 - JanBelow)..JanAbove
  /\ mPc = "call"
  /\ mWriter = NewWriter
  /\ hName = "" /\ hYear = 0 /\ hResult = NoDate
  /\ nYear = 0 /\ nMonth = 1 /\ nWeekday = 0 /\ nN = 1 /\ nResult = NoDate
  /\ gFw = MondayFirst /\ gYear = 0 /\ gMonth = 1 /\ gTable = NoTable
  /\ cEvents = {} /\ cPref = "auto" /\ cImage = NotCalled
  /\ fIn = <<>> /\ fOut = <<>>
  /\ heYear = 0 /\ heHolidays = {} /\ heEvents = {}
  /\ iInv = [accepted |-> FALSE, expired |-> FALSE] /\ iShares = {}
  /\ iReq = [r \in Requests |-> NoRequest]
  /\ firstweekday = MondayFirst /\ year = 0 /\ events = {} /\ header = NoHeader
  /\ records = {} /\ pdfFiles = {} /\ tmpFiles = {} /\ callNo = 0
  /\ last = Idle /\ layoutLog = <<>>

NextMerge ==
  MergeCall /\ UNCHANGED holidayVars /\ UNCHANGED nthVars /\ UNCHANGED gridVars /\ UNCHANGED collageVars /\ UNCHANGED restVars /\ UNCHANGED genVars

SpecMerge == InitMerge /\ [][NextMerge]_vars

InitHoliday ==
  /\ hName \in HolidayNames \cup {"halloween"}
  /\ hYear \in (MinYear..MaxYear) \cup EdgeYears
  /\ hResult = PendingDate
  /\ nYear = 0 /\ nMonth = 1 /\ nWeekday = 0 /\ nN = 1 /\ nResult = NoDate
  /\ gFw = MondayFirst /\ gYear = 0 /\ gMonth = 1 /\ gTable = NoTable
  /\ cEvents = {} /\ cPref = "auto" /\ cImage = NotCalled
  /\ fIn = <<>> /\ fOut = <<>>
  /\ heYear = 0 /\ heHolidays = {} /\ heEvents = {}
  /\ iInv = [accepted |-> FALSE, expired |-> FALSE] /\ iShares = {}
  /\ iReq = [r \in Requests |-> NoRequest]
  /\ mH = 0 /\ mJan = 1 /\ mPc = "idle" /\ mWriter = NewWriter
  /\ firstweekday = MondayFirst /\ year = 0 /\ events = {} /\ header = NoHeader
  /\ records = {} /\ pdfFiles = {} /\ tmpFiles = {} /\ callNo = 0
  /\ last = Idle /\ layoutLog = <<>>

NextHoliday ==
  HolidayCall /\ UNCHANGED mergeVars /\ UNCHANGED nthVars /\ UNCHANGED gridVars /\ UNCHANGED collageVars /\ UNCHANGED restVars /\ UNCHANGED genVars

SpecHoliday == InitHoliday /\ [][NextHoliday]_vars

InitNth ==
  /\ nYear \in NthYears
  /\ nMonth \in 1..12
  /\ nWeekday \in 0..6
  /\ nN \in 1..MaxNth
  /\ nResult = PendingDate
  /\ gFw = MondayFirst /\ gYear = 0 /\ gMonth = 1 /\ gTable = NoTable
  /\ cEvents = {} /\ cPref = "auto" /\ cImage = NotCalled
  /\ fIn = <<>> /\ fOut = <<>>
  /\ heYear = 0 /\ heHolidays = {} /\ heEvents = {}
  /\ iInv = [accepted |-> FALSE, expired |-> FALSE] /\ iShares = {}
  /\ iReq = [r \in Requests |-> NoRequest]
  /\ hName = "" /\ hYear = 0 /\ hResult = NoDate
  /\ mH = 0 /\ mJan = 1 /\ mPc = "idle" /\ mWriter = NewWriter
  /\ firstweekday = MondayFirst /\ year = 0 /\ events = {} /\ header = NoHeader
  /\ records = {} /\ pdfFiles = {} /\ tmpFiles = {} /\ callNo = 0
  /\ last = Idle /\ layoutLog = <<>>

NextNth ==
  /\ NthWeekdayCall
  /\ UNCHANGED mergeVars /\ UNCHANGED holidayVars /\ UNCHANGED gridVars /\ UNCHANGED collageVars /\ UNCHANGED restVars
  /\ UNCHANGED genVars

SpecNth == InitNth /\ [][NextNth]_vars

InitGrid ==
  /\ gFw \in {MondayFirst, SundayFirst}
  /\ gYear \in MinYear..MaxYear
  /\ gMonth \in 1..NumMonths
  /\ gTable = NoTable
  /\ cEvents = {} /\ cPref = "auto" /\ cImage = NotCalled
  /\ fIn = <<>> /\ fOut = <<>>
  /\ heYear = 0 /\ heHolidays = {} /\ heEvents = {}
  /\ iInv = [accepted |-> FALSE, expired |-> FALSE] /\ iShares = {}
  /\ iReq = [r \in Requests |-> NoRequest]
  /\ nYear = 0 /\ nMonth = 1 /\ nWeekday = 0 /\ nN = 1 /\ nResult = NoDate
  /\ hName = "" /\ hYear = 0 /\ hResult = NoDate
  /\ mH = 0 /\ mJan = 1 /\ mPc = "idle" /\ mWriter = NewWriter
  /\ firstweekday = MondayFirst /\ year = 0 /\ events = {} /\ header = NoHeader
  /\ records = {} /\ pdfFiles = {} /\ tmpFiles = {} /\ callNo = 0
  /\ last = Idle /\ layoutLog = <<>>

NextGrid ==
  /\ GridCall
  /\ UNCHANGED mergeVars /\ UNCHANGED holidayVars /\ UNCHANGED nthVars
  /\ UNCHANGED collageVars /\ UNCHANGED restVars /\ UNCHANGED genVars

SpecGrid == InitGrid /\ [][NextGrid]_vars

InitCollage ==
  /\ cEvents \in SUBSET CollagePool
  /\ cPref \in LayoutPreferences
  /\ cImage = NotCalled
  /\ fIn = <<>> /\ fOut = <<>>
  /\ heYear = 0 /\ heHolidays = {} /\ heEvents = {}
  /\ iInv = [accepted |-> FALSE, expired |-> FALSE] /\ iShares = {}
  /\ iReq = [r \in Requests |-> NoRequest]
  /\ gFw = MondayFirst /\ gYear = 0 /\ gMonth = 1 /\ gTable = NoTable
  /\ nYear = 0 /\ nMonth = 1 /\ nWeekday = 0 /\ nN = 1 /\ nResult = NoDate
  /\ hName = "" /\ hYear = 0 /\ hResult = NoDate
  /\ mH = 0 /\ mJan = 1 /\ mPc = "idle" /\ mWriter = NewWriter
  /\ firstweekday = MondayFirst /\ year = 0 /\ events = {} /\ header = NoHeader
  /\ records = {} /\ pdfFiles = {} /\ tmpFiles = {} /\ callNo = 0
  /\ last = Idle /\ layoutLog = <<>>

NextCollage ==
  /\ CollageCall
  /\ UNCHANGED restVars
  /\ UNCHANGED mergeVars /\ UNCHANGED holidayVars /\ UNCHANGED nthVars
  /\ UNCHANGED gridVars /\ UNCHANGED genVars

SpecCollage == InitCollage /\ [][NextCollage]_vars

InitFont ==
  /\ fIn \in [1..2 -> [tier : WeekTiers, len : 0..MaxNameLen]]
  /\ fOut = <<>>
  /\ heYear = 0 /\ heHolidays = {} /\ heEvents = {}
  /\ iInv = [accepted |-> FALSE, expired |-> FALSE] /\ iShares = {}
  /\ iReq = [r \in Requests |-> NoRequest]
  /\ cEvents = {} /\ cPref = "auto" /\ cImage = NotCalled
  /\ gFw = MondayFirst /\ gYear = 0 /\ gMonth = 1 /\ gTable = NoTable
  /\ nYear = 0 /\ nMonth = 1 /\ nWeekday = 0 /\ nN = 1 /\ nResult = NoDate
  /\ hName = "" /\ hYear = 0 /\ hResult = NoDate
  /\ mH = 0 /\ mJan = 1 /\ mPc = "idle" /\ mWriter = NewWriter
  /\ firstweekday = MondayFirst /\ year = 0 /\ events = {} /\ header = NoHeader
  /\ records = {} /\ pdfFiles = {} /\ tmpFiles = {} /\ callNo = 0
  /\ last = Idle /\ layoutLog = <<>>

NextFont ==
  /\ FontCall
  /\ UNCHANGED holidayEventVars /\ UNCHANGED inviteVars
  /\ UNCHANGED mergeVars /\ UNCHANGED holidayVars /\ UNCHANGED nthVars
  /\ UNCHANGED gridVars /\ UNCHANGED <<cEvents, cPref, cImage>> /\ UNCHANGED genVars

SpecFont == InitFont /\ [][NextFont]_vars

InitHolidayEvents ==
  /\ heYear \in Years
  /\ heHolidays = {}
  /\ heEvents \in {{}, {UserEvent}}
  /\ fIn = <<>> /\ fOut = <<>>
  /\ iInv = [accepted |-> FALSE, expired |-> FALSE] /\ iShares = {}
  /\ iReq = [r \in Requests |-> NoRequest]
  /\ cEvents = {} /\ cPref = "auto" /\ cImage = NotCalled
  /\ gFw = MondayFirst /\ gYear = 0 /\ gMonth = 1 /\ gTable = NoTable
  /\ nYear = 0 /\ nMonth = 1 /\ nWeekday = 0 /\ nN = 1 /\ nResult = NoDate
  /\ hName = "" /\ hYear = 0 /\ hResult = NoDate
  /\ mH = 0 /\ mJan = 1 /\ mPc = "idle" /\ mWriter = NewWriter
  /\ firstweekday = MondayFirst /\ year = 0 /\ events = {} /\ header = NoHeader
  /\ records = {} /\ pdfFiles = {} /\ tmpFiles = {} /\ callNo = 0
  /\ last = Idle /\ layoutLog = <<>>

NextHolidayEvents ==
  \/ \E name \in ManagedHolidays :
       /\ HolidaySave(name)
       /\ UNCHANGED fontVars /\ UNCHANGED inviteVars
       /\ UNCHANGED mergeVars /\ UNCHANGED holidayVars /\ UNCHANGED nthVars
       /\ UNCHANGED gridVars /\ UNCHANGED <<cEvents, cPref, cImage>> /\ UNCHANGED genVars
  \/ \E name \in ManagedHolidays :
       /\ HolidayDelete(name)
       /\ UNCHANGED fontVars /\ UNCHANGED inviteVars
       /\ UNCHANGED mergeVars /\ UNCHANGED holidayVars /\ UNCHANGED nthVars
       /\ UNCHANGED gridVars /\ UNCHANGED <<cEvents, cPref, cImage>> /\ UNCHANGED genVars
  \/ \E selected \in SUBSET ManagedHolidays :
       /\ HolidayFormSave(selected)
       /\ UNCHANGED fontVars /\ UNCHANGED inviteVars
       /\ UNCHANGED mergeVars /\ UNCHANGED holidayVars /\ UNCHANGED nthVars
       /\ UNCHANGED gridVars /\ UNCHANGED <<cEvents, cPref, cImage>> /\ UNCHANGED genVars

SpecHolidayEvents == InitHolidayEvents /\ [][NextHolidayEvents]_vars

InitInvite ==
  /\ iInv = [accepted |-> FALSE, expired |-> FALSE]
  /\ iShares \in SUBSET Invitees
  /\ iReq = [r \in Requests |-> NoRequest]
  /\ fIn = <<>> /\ fOut = <<>>
  /\ heYear = 0 /\ heHolidays = {} /\ heEvents = {}
  /\ cEvents = {} /\ cPref = "auto" /\ cImage = NotCalled
  /\ gFw = MondayFirst /\ gYear = 0 /\ gMonth = 1 /\ gTable = NoTable
  /\ nYear = 0 /\ nMonth = 1 /\ nWeekday = 0 /\ nN = 1 /\ nResult = NoDate
  /\ hName = "" /\ hYear = 0 /\ hResult = NoDate
  /\ mH = 0 /\ mJan = 1 /\ mPc = "idle" /\ mWriter = NewWriter
  /\ firstweekday = MondayFirst /\ year = 0 /\ events = {} /\ header = NoHeader
  /\ records = {} /\ pdfFiles = {} /\ tmpFiles = {} /\ callNo = 0
  /\ last = Idle /\ layoutLog = <<>>

NextInvite ==
  \/ \E r \in Requests, u \in Invitees :
       /\ InviteLoad(r, u)
       /\ UNCHANGED fontVars /\ UNCHANGED holidayEventVars
       /\ UNCHANGED mergeVars /\ UNCHANGED holidayVars /\ UNCHANGED nthVars
       /\ UNCHANGED gridVars /\ UNCHANGED <<cEvents, cPref, cImage>> /\ UNCHANGED genVars
  \/ \E r \in Requests :
       /\ InviteAccept(r)
       /\ UNCHANGED fontVars /\ UNCHANGED holidayEventVars
       /\ UNCHANGED mergeVars /\ UNCHANGED holidayVars /\ UNCHANGED nthVars
       /\ UNCHANGED gridVars /\ UNCHANGED <<cEvents, cPref, cImage>> /\ UNCHANGED genVars
  \/ /\ InviteExpire
     /\ UNCHANGED fontVars /\ UNCHANGED holidayEventVars
     /\ UNCHANGED mergeVars /\ UNCHANGED holidayVars /\ UNCHANGED nthVars
     /\ UNCHANGED gridVars /\ UNCHANGED <<cEvents, cPref, cImage>> /\ UNCHANGED genVars
  \/ \E u \in Invitees :
       /\ DirectShare(u)
       /\ UNCHANGED fontVars /\ UNCHANGED holidayEventVars
       /\ UNCHANGED mergeVars /\ UNCHANGED holidayVars /\ UNCHANGED nthVars
       /\ UNCHANGED gridVars /\ UNCHANGED <<cEvents, cPref, cImage>> /\ UNCHANGED genVars
  \/ \E u \in Invitees :
       /\ Unshare(u)
       /\ UNCHANGED fontVars /\ UNCHANGED holidayEventVars
       /\ UNCHANGED mergeVars /\ UNCHANGED holidayVars /\ UNCHANGED nthVars
       /\ UNCHANGED gridVars /\ UNCHANGED <<cEvents, cPref, cImage>> /\ UNCHANGED genVars

SpecInvite == InitInvite /\ [][NextInvite]_vars

(***************************************************************************)
(* Claims                                                                  *)
(***************************************************************************)

Min(a, b) == IF a < b THEN a ELSE b
Max(a, b) == IF a > b THEN a ELSE b

\* The page at position i of the merged output, as <<document, page number>>
MergedPage(i) == <<mWriter.pages[i].doc, mWriter.pages[i].page>>
\* Front matter, month headers and back matter a header of mH pages has for
\* a 1-based january_page mJan >= 1
FrontCount == Min(mJan - 1, mH)
MonthHeaderCount == Max(0, Min(NumMonths, mH - (mJan - 1)))
BackCount == Max(0, mH - (mJan + 11))

\* C1: for january_page j >= 1 the merged output is header pages 0..j-2, then
\* for each month m the header page j-1+m (if the header has it) followed by
\* calendar page m, then header pages j+11..H-1; 26 pages for H = 14, j = 2.
C1_MergeLayout ==
  (mPc \in {"returned", "raised"} /\ mJan >= 1) =>
    /\ mPc = "returned"
    /\ Len(mWriter.pages) = FrontCount + MonthHeaderCount + NumMonths + BackCount
    /\ \A i \in 1..FrontCount : MergedPage(i) = <<"header", i - 1>>
    /\ \A m \in 0..(NumMonths - 1) :
         IF m < MonthHeaderCount
         THEN /\ MergedPage(FrontCount + 2 * m + 1) = <<"header", mJan - 1 + m>>
              /\ MergedPage(FrontCount + 2 * m + 2) = <<"calendar", m>>
         ELSE MergedPage(FrontCount + MonthHeaderCount + m + 1) = <<"calendar", m>>
    /\ \A b \in 1..BackCount :
         MergedPage(FrontCount + MonthHeaderCount + NumMonths + b)
           = <<"header", mJan + 10 + b>>
    /\ (mH = 14 /\ mJan = 2) => Len(mWriter.pages) = 26

C1_Witness ==
  /\ mPc = "returned" /\ mH = 14 /\ mJan = 2
  /\ Len(mWriter.pages) = 26
  /\ MergedPage(1) = <<"header", 0>>
  /\ MergedPage(2) = <<"header", 1>>
  /\ MergedPage(3) = <<"calendar", 0>>
  /\ MergedPage(26) = <<"header", 13>>

\* C2: for every january_page and header length the merge never raises, and
\* every header page in the output comes from a computed index inside 0..H-1
\* (an index outside that range contributes no page).
C2_OutOfRangeSkipped ==
  mPc \in {"returned", "raised"} =>
    /\ mPc = "returned"
    /\ \A i \in 1..Len(mWriter.pages) :
         mWriter.pages[i].doc = "header" => mWriter.pages[i].idx \in 0..(mH - 1)

\* C3: resolve(labor_day, Y) is a Monday in September with day 1..7.
C3_LaborDayFirstMonday ==
  (hName = "labor_day" /\ hResult # PendingDate) =>
    /\ hResult.kind = "date"
    /\ hResult.y = hYear /\ hResult.m = 9
    /\ hResult.d \in 1..7
    /\ Weekday(hResult.y, hResult.m, hResult.d) = 0

\* C4: in every month rendered by any generation call, the week count the
\* day cells read (current_month_weeks) is the number of week rows of the
\* grid laid out for that month (num_weeks).
C4_TierMatchesGrid ==
  \A i \in 1..Len(layoutLog) : \A m \in 1..Len(layoutLog[i].months) :
    \A c \in layoutLog[i].months[m].cells :
      c.tier = layoutLog[i].months[m].num_weeks

\* C5: when a generation mode returns normally, no temporary file created
\* during that call remains.
C5_NoTempAfterReturn ==
  last.gen = "returned" => \A f \in tmpFiles : f[1] # last.call

\* C6: when a generation mode exits with an exception, no temporary file
\* created during that call remains.
C6_NoTempAfterException ==
  last.gen = "raised" => \A f \in tmpFiles : f[1] # last.call

\* C7: every stored artifact's generation_type tag names the mode that built
\* it: with_headers the page-merged document, combined the per-month spread.
C7_TagNamesBuilder == \A r \in records : r.builtBy = r.gtype

\* C8: a with_headers or combined request for a calendar without a header
\* fails with the no-header error before any month is rendered, and creates,
\* changes or deletes no record, stored PDF or temporary file.
C8_NoHeaderFailsClean ==
  [][(/\ callNo' = callNo + 1
      /\ last'.gtype \in {"with_headers", "combined"}
      /\ ~header.present)
     => (/\ last'.outcome = "error" /\ last'.error = "no_header"
         /\ last'.rendered = 0 /\ last'.builtBy = "none"
         /\ records' = records /\ pdfFiles' = pdfFiles
         /\ tmpFiles' = tmpFiles /\ layoutLog' = layoutLog)]_vars

C8_Witness ==
  /\ last.gtype = "with_headers" /\ last.action = "create_new"
  /\ ~header.present
  /\ last.outcome = "error" /\ last.error = "no_header"
  /\ records # {}

\* C9: if the generator raises during GenerateCalendarView.post, for any
\* action, no GeneratedCalendar record is created, updated or deleted and no
\* stored PDF file is removed or added.
C9_GeneratorFailureKeepsStore ==
  [][(callNo' = callNo + 1 /\ last'.gen = "raised")
     => (records' = records /\ pdfFiles' = pdfFiles)]_vars

C9_Witness ==
  /\ last.gen = "raised" /\ last.error = "build"
  /\ last.action = "overwrite" /\ last.hadExisting
  /\ last.rendered = NumMonths
  /\ \E r \in records : r.gtype = last.gtype /\ r.file \in pdfFiles

\* The layout decisions of a rendered month
CellSizing(c) ==
  [day |-> c.day, thumb |-> c.thumb, font_size |-> c.font_size,
   leading |-> c.leading, row_heights |-> c.row_heights]
MonthSizing(ml) ==
  [num_weeks |-> ml.num_weeks, row_height |-> ml.row_height,
   cells |-> {CellSizing(c) : c \in ml.cells}]

\* C10: two calendar_only generations from the same event data make the same
\* layout decisions for every month, whether first or later in the process.
C10_SameLayoutTwice ==
  \A i, j \in 1..Len(layoutLog) :
    (/\ layoutLog[i].method = "generate_calendar_only" /\ ~layoutLog[i].raised
     /\ layoutLog[j].method = "generate_calendar_only" /\ ~layoutLog[j].raised)
    => \A m \in 1..NumMonths :
         MonthSizing(layoutLog[i].months[m]) = MonthSizing(layoutLog[j].months[m])

\* C11: get_holiday_date never raises: every holiday name and every year
\* yields a date or None; an unknown name and a year outside 1..9999 yield None.
C11_NeverRaises ==
  hResult # PendingDate =>
    /\ hResult.kind \in {"date", "none"}
    /\ hName \notin HolidayNames => hResult = NoDate
    /\ hYear \notin 1..9999 => hResult = NoDate

C11_Witness ==
  /\ hName = "thanksgiving" /\ hYear = 10000 /\ hResult = NoDate

\* Easter Sunday by Oudin's algorithm, which agrees with the anonymous
\* Gregorian computus for every year 1..9999
ReferenceEaster(Y) ==
  LET G == Y % 19
      C == Y \div 100
      H == (C - (C \div 4) - ((8 * C + 13) \div 25) + 19 * G + 15) % 30
      I == H - (H \div 28) * (1 - (H \div 28) * (29 \div (H + 1)) * ((21 - G) \div 11))
      J == (Y + (Y \div 4) + I + 2 - C + (C \div 4)) % 7
      L == I - J
      month == 3 + ((L + 40) \div 44)
      day == L + 28 - 31 * (month \div 4)
  IN MkDate(Y, month, day)

\* C12: resolve(easter, Y) is the date of the Gregorian computus, a Sunday;
\* March 31 for 2024 and April 20 for 2025.
C12_EasterComputus ==
  (hName = "easter" /\ hResult # PendingDate /\ hYear \in 1..9999) =>
    /\ hResult = ReferenceEaster(hYear)
    /\ Weekday(hResult.y, hResult.m, hResult.d) = 6
    /\ hYear = 2024 => hResult = MkDate(2024, 3, 31)
    /\ hYear = 2025 => hResult = MkDate(2025, 4, 20)

C12_Witness ==
  /\ hName = "easter" /\ hYear = 2025 /\ hResult = MkDate(2025, 4, 20)

\* <<month, weekday, n>> of the n-th-weekday holidays
NthHoliday(name) ==
  CASE name = "thanksgiving" -> <<11, 3, 4>>
    [] name = "mothers_day" -> <<5, 6, 2>>
    [] name = "fathers_day" -> <<6, 6, 3>>

\* C13: thanksgiving, mothers_day and fathers_day resolve, for every year, to
\* a date in the stated month, on the stated weekday, with its day in
\* 7(n-1)+1 .. 7n; thanksgiving 2024 is November 28.
C13_NthWeekdayHolidays ==
  (/\ hName \in {"thanksgiving", "mothers_day", "fathers_day"}
   /\ hResult # PendingDate /\ hYear \in 1..9999) =>
    /\ hResult.kind = "date"
    /\ hResult.y = hYear
    /\ hResult.m = NthHoliday(hName)[1]
    /\ Weekday(hResult.y, hResult.m, hResult.d) = NthHoliday(hName)[2]
    /\ hResult.d \in (7 * (NthHoliday(hName)[3] - 1) + 1)..(7 * NthHoliday(hName)[3])
    /\ (hName = "thanksgiving" /\ hYear = 2024) => hResult = MkDate(2024, 11, 28)

C13_Witness ==
  /\ hName = "thanksgiving" /\ hYear = 2024 /\ hResult = MkDate(2024, 11, 28)

\* The n-th nWeekday of nMonth exists: the days of the month on that weekday
\* number at least n
NthOccurrenceExists ==
  Cardinality({d \in 1..DaysInMonth(nYear, nMonth) :
                 Weekday(nYear, nMonth, d) = nWeekday}) >= nN

C15_MemorialDayLastMonday ==
  (hName = "memorial_day" /\ hResult # PendingDate /\ hYear \in 1..9999) =>
    /\ hResult.kind = "date"
    /\ hResult.y = hYear /\ hResult.m = 5
    /\ Weekday(hResult.y, hResult.m, hResult.d) = 0
    /\ hResult.d + 7 > 31
    /\ Weekday(hYear, 5, 31) = 0 => hResult.d = 31

C15_Witness ==
  /\ hName = "memorial_day" /\ hYear = 1909 /\ hResult = MkDate(1909, 5, 31)

\* C16: christmas resolves to December 25, new_years to January 1 and
\* independence_day to July 4 of the year asked for.
C16_FixedDates ==
  (hResult # PendingDate /\ hYear \in 1..9999) =>
    /\ hName = "christmas" => hResult = MkDate(hYear, 12, 25)
    /\ hName = "new_years" => hResult = MkDate(hYear, 1, 1)
    /\ hName = "independence_day" => hResult = MkDate(hYear, 7, 4)

C16_Witness ==
  /\ hName = "independence_day" /\ hYear = 9999 /\ hResult = MkDate(9999, 7, 4)

\* The week rows a month needs when its weeks start on Sunday
SundayFirstRows(y, m) ==
  (((Weekday(y, m, 1) + 1) % 7) + DaysInMonth(y, m) + 6) \div 7

\* C17: the grid's row height follows the table 4 -> 1.65 in, 5 -> 1.30 in,
\* 6 -> 1.10 in of its week-row count N, and N is 4, 5 or 6: the rows the
\* month needs.
C17_RowHeightTable ==
  gTable.called =>
    /\ gTable.num_weeks \in {4, 5, 6}
    /\ gTable.num_weeks = Len(gTable.weeks)
    /\ gTable.num_weeks = SundayFirstRows(gYear, gMonth)
    /\ gTable.num_weeks = 4 => gTable.row_height = 165
    /\ gTable.num_weeks = 5 => gTable.row_height = 130
    /\ gTable.num_weeks = 6 => gTable.row_height = 110

C17_Witness ==
  /\ gTable.called /\ gYear = 2026 /\ gMonth = 2
  /\ gTable.num_weeks = 4 /\ gTable.row_height = 165

\* The label of the column a date with datetime weekday wd belongs in
DayLabel(wd) == <<"MON", "TUE", "WED", "THU", "FRI", "SAT", "SUN">>[wd + 1]

\* The cells of the week rows in row-major order
RECURSIVE RowMajor(_)
RowMajor(weeks) ==
  IF Len(weeks) = 0 THEN <<>> ELSE Head(weeks) \o RowMajor(Tail(weeks))

\* C18: every day of the month sits once, in increasing row-major order, in
\* the column labelled with its weekday; the other cells are empty; March
\* 2025 has 6 week rows.
C18_SundayFirstGrid ==
  gTable.called =>
    LET cells == RowMajor(gTable.weeks)
        D == DaysInMonth(gYear, gMonth)
    IN /\ \A w \in 1..Len(gTable.weeks) : Len(gTable.weeks[w]) = 7
       /\ \A d \in 1..D :
            \E i \in 1..Len(cells) :
              /\ cells[i] = d
              /\ \A j \in 1..Len(cells) : cells[j] = d => j = i
              /\ gTable.days_header[((i - 1) % 7) + 1]
                   = DayLabel(Weekday(gYear, gMonth, d))
       /\ \A i, j \in 1..Len(cells) :
            (cells[i] # 0 /\ cells[j] # 0 /\ i < j) => cells[i] < cells[j]
       /\ \A i \in 1..Len(cells) : cells[i] \in 0..D
       /\ (gYear = 2025 /\ gMonth = 3) => Len(gTable.weeks) = 6

C18_Witness ==
  /\ gTable.called /\ gYear = 2025 /\ gMonth = 3
  /\ Len(gTable.weeks) = 6
  /\ gTable.weeks[1] = <<0, 0, 0, 0, 0, 0, 1>>
  /\ gTable.weeks[6] = <<30, 31, 0, 0, 0, 0, 0>>

\* The two events of the date, by creation order
FirstCreated == CHOOSE e \in cEvents : \A z \in cEvents : e.seq <= z.seq
SecondCreated == CHOOSE e \in cEvents : \A z \in cEvents : e.seq >= z.seq
\* What a slot shows of an event: its image, or background when it has none
\* that opens
Shown(e) == IF e.image = "ok" THEN e.seq ELSE 0

\* C20: for a date with exactly two events the composite has the first
\* created event's image in the left half (side_by_side, auto) or the top
\* half (top_bottom) and the second's in the right or bottom half, by
\* creation order alone.
C20_TwoEventPlacement ==
  (cImage.called /\ Cardinality(cEvents) = 2) =>
    /\ cImage.created
    /\ Len(cImage.slots) = 2
    /\ cImage.slots[1].source = Shown(FirstCreated)
    /\ cImage.slots[2].source = Shown(SecondCreated)
    /\ cPref \in {"side_by_side", "auto"} =>
         /\ cImage.slots[1].box = <<0, 0, 160, 200>>
         /\ cImage.slots[2].box = <<160, 0, 160, 200>>
    /\ cPref = "top_bottom" =>
         /\ cImage.slots[1].box = <<0, 0, 320, 100>>
         /\ cImage.slots[2].box = <<0, 100, 320, 100>>

C20_Witness ==
  /\ cImage.called /\ cImage.created /\ cPref = "top_bottom"
  /\ {e.seq : e \in cEvents} = {1, 2}
  /\ cImage.slots[1].source = 1 /\ cImage.slots[1].box = <<0, 0, 320, 100>>
  /\ cImage.slots[2].source = 2 /\ cImage.slots[2].box = <<0, 100, 320, 100>>

\* The days of month m of the calendar that carry events
EventDays(m) == {e.day : e \in {x \in events : x.month = m}} \cap 1..DaysInMonth(year, m)

\* What the cell c of a day shows when the day's events are es: a sole event
\* whose image is missing or corrupt gets a text placeholder and no thumbnail;
\* several events get the composite, each slot holding its event's image or,
\* when that image is absent, missing or corrupt, the background
CellSurvivesBadImage(c, es) ==
  IF Len(es) = 1
  THEN es[1].image \in {"missing", "corrupt"} =>
         /\ c.placeholder \in {"image", "error"}
         /\ c.thumb = <<0, 0, 0, 0>>
         /\ Len(c.row_heights) = 3
  ELSE /\ c.collage.created
       /\ c.placeholder = "none"
       /\ c.thumb # <<0, 0, 0, 0>>
       /\ \A k \in 1..Len(c.collage.slots) :
            c.collage.slots[k].source = IF es[k].image = "ok" THEN es[k].seq ELSE 0

\* C19: whatever images are missing or corrupt, every generation call that
\* renders the months renders all twelve, with a cell for every event day:
\* a placeholder cell at cell level, a composite with background slots at
\* collage level.
C19_BadImageNonFatal ==
  \A i \in 1..Len(layoutLog) :
    /\ Len(layoutLog[i].months) = NumMonths
    /\ \A m \in 1..NumMonths : \A d \in EventDays(m) :
         \E c \in layoutLog[i].months[m].cells :
           c.day = d /\ CellSurvivesBadImage(c, EventsOn(events, m, d))

C19_Witness ==
  /\ events = EventPool
  /\ last.gen = "returned" /\ last.outcome = "generated"
  /\ last.rendered = NumMonths
  /\ \E c \in layoutLog[1].months[3].cells : c.day = 10 /\ c.placeholder = "image"
  /\ \E c \in layoutLog[1].months[1].cells :
       /\ c.day = 15 /\ c.collage.created
       /\ c.collage.slots[1].source = 1
       /\ c.collage.slots[3].source = 0

\* The events of the date in creation order
InCreationOrder == SortBySeq(cEvents)

\* The cell of a 2x2 grid for index i (0-based): column i mod 2, row i div 2
GridCell(i) == <<(i % 2) * 160, (i \div 2) * 100, 160, 100>>

RECURSIVE WithImage(_)
WithImage(es) ==
  IF Len(es) = 0 THEN <<>>
  ELSE IF Head(es).image # "none" THEN <<Head(es)>> \o WithImage(Tail(es))
  ELSE WithImage(Tail(es))

\* C22: events without an image take no slot: the composite of a date with
\* several events has one slot per event that has an image (at most four),
\* laid out by the template for that number of images.
C22_ImagelessTakeNoSlot ==
  (cImage.called /\ Cardinality(cEvents) >= 2) =>
    LET imgs == WithImage(InCreationOrder)
        shown == IF Len(imgs) >= 4 THEN 4 ELSE Len(imgs)
    IN /\ Len(cImage.slots) = shown
       /\ \A k \in 1..Len(cImage.slots) :
            /\ cImage.slots[k].event = imgs[k].seq
            /\ cImage.slots[k].box = SlotBox(Len(imgs), k - 1, cPref)

\* C25: with layout preference 'grid' the composite of any date with two or
\* more events is a 2x2 grid.
C25_GridPreference ==
  (cImage.called /\ cPref = "grid" /\ Cardinality(cEvents) >= 2) =>
    /\ cImage.created
    /\ \A k \in 1..Len(cImage.slots) : cImage.slots[k].box = GridCell(k - 1)

\* The positions of the merged output that hold page p of document doc
PositionsOf(doc, p) ==
  {i \in 1..Len(mWriter.pages) : MergedPage(i) = <<doc, p>>}

\* C27: for every header length and january_page >= 1 the merged output
\* holds each header page exactly once, in the header's order, and each of
\* the 12 calendar pages exactly once, in month order: H + 12 pages.
C27_MergePreservesPages ==
  (mPc \in {"returned", "raised"} /\ mJan >= 1) =>
    /\ mPc = "returned"
    /\ Len(mWriter.pages) = mH + NumMonths
    /\ \A p \in 0..(mH - 1) : Cardinality(PositionsOf("header", p)) = 1
    /\ \A m \in 0..(NumMonths - 1) : Cardinality(PositionsOf("calendar", m)) = 1
    /\ \A i, k \in 1..Len(mWriter.pages) :
         (i < k /\ mWriter.pages[i].doc = mWriter.pages[k].doc)
           => mWriter.pages[i].page < mWriter.pages[k].page

C27_Witness ==
  /\ mPc = "returned" /\ mH = 15 /\ mJan = 3
  /\ Len(mWriter.pages) = 27
  /\ PositionsOf("header", 14) = {27}
  /\ PositionsOf("header", 13) = {25}
  /\ PositionsOf("calendar", 11) = {26}

\* C28: for the years 1900..2100 _calculate_easter yields a date that
\* exists, is a Sunday and lies between March 22 and April 25.
C28_EasterInRange ==
  (hName = "easter" /\ hResult # PendingDate /\ hYear \in MinYear..MaxYear) =>
    /\ hResult.kind = "date"
    /\ hResult.y = hYear
    /\ ValidDate(hResult.y, hResult.m, hResult.d)
    /\ Weekday(hResult.y, hResult.m, hResult.d) = 6
    /\ \/ hResult.m = 3 /\ hResult.d \in 22..31
       \/ hResult.m = 4 /\ hResult.d \in 1..25

C28_Witness ==
  /\ hName = "easter" /\ hYear = 2038 /\ hResult = MkDate(2038, 4, 25)

\* C29: after any sequence of requests there is at most one record per
\* generation_type, and a 'generate' request made while a record of its type
\* exists runs no generator and changes no record and no file.
C29_OneRecordPerType ==
  [][/\ \A t \in RequestTypes : Cardinality(Existing(records', t)) <= 1
     /\ (/\ callNo' = callNo + 1
         /\ last'.action = "generate"
         /\ Existing(records, last'.gtype) # {})
        => /\ last'.outcome = "conflict"
           /\ last'.gen = "none" /\ last'.rendered = 0
           /\ records' = records /\ pdfFiles' = pdfFiles
           /\ tmpFiles' = tmpFiles /\ layoutLog' = layoutLog]_vars

C29_Witness ==
  /\ last.call = 2 /\ last.action = "generate" /\ last.outcome = "conflict"
  /\ Cardinality(records) = 1
  /\ \A r \in records : r.gtype = last.gtype /\ r.id = 1 /\ r.file \in pdfFiles
  /\ Cardinality(pdfFiles) = 1

\* The events of day d of month m, as a set
OnDay(m, d) == {e \in events : e.month = m /\ e.day = d}

\* C23: in the cell of a day with more than one event the name joins the
\* display names of all the day's events, each once, in creation order, and
\* the collage slots of the day follow the same order.
C23_JoinedNameOrder ==
  \A i \in 1..Len(layoutLog) : \A m \in 1..Len(layoutLog[i].months) :
    \A c \in layoutLog[i].months[m].cells :
      Cardinality(OnDay(m, c.day)) > 1 =>
        /\ Len(c.names) = Cardinality(OnDay(m, c.day))
        /\ {c.names[k] : k \in 1..Len(c.names)} = {e.seq : e \in OnDay(m, c.day)}
        /\ \A j, k \in 1..Len(c.names) : j < k => c.names[j] < c.names[k]
        /\ c.collage.called
        /\ \A k \in 1..Len(c.collage.slots) : c.collage.slots[k].event = c.names[k]

C23_Witness ==
  /\ Len(layoutLog) >= 1
  /\ {e.seq : e \in OnDay(1, 15)} = {1, 2, 4}
  /\ \E c \in layoutLog[1].months[1].cells :
       /\ c.day = 15 /\ c.names = <<1, 2, 4>>
       /\ Len(c.collage.slots) = 3
       /\ c.collage.slots[3].event = 4

\* Within one week tier the longer of the two names never has the larger font
FontMonotone ==
  (fIn[1].tier = fIn[2].tier /\ fIn[1].len <= fIn[2].len) => fOut[1] >= fOut[2]

\* The first cell is in a 6-week month, the second in a 4- or 5-week month,
\* and their names have the same length
SameNameSixAndOther ==
  fIn[1].tier = 6 /\ fIn[2].tier \in {4, 5} /\ fIn[1].len = fIn[2].len

\* C24: the event-name font size never grows with the name's length within
\* a week tier, and the size of the 6-week tier is the size of the 4/5-week
\* tiers reduced by one step (one point) of the table.
C24_OneStepSmaller ==
  Len(fOut) = 2 =>
    /\ FontMonotone
    /\ SameNameSixAndOther => fOut[1] = fOut[2] - 1

\* C24 as the code has it: the size never grows with the name's length
\* within a week tier (12, 11, 10 points in 4/5-week months, 8, 7, 6 in
\* 6-week months, the steps after 15 and 22 characters), and the size of the
\* 6-week tier is the size of the 4/5-week tiers less four points.
C24_FourPointsSmaller ==
  Len(fOut) = 2 =>
    /\ FontMonotone
    /\ SameNameSixAndOther => fOut[1] = fOut[2] - 4
    /\ fIn[2].tier \in {4, 5} =>
         fOut[2] = IF fIn[2].len <= 15 THEN 12
                   ELSE IF fIn[2].len <= 22 THEN 11 ELSE 10

C24_Witness ==
  /\ fIn = <<[tier |-> 6, len |-> 20], [tier |-> 5, len |-> 20]>>
  /\ fOut = <<7, 11>>

\* C26: after any sequence of Holiday.save, Holiday.delete and
\* HolidayManagementForm.save, every CalendarEvent created for a holiday
\* belongs to a holiday the calendar still has.
C26_HolidayEventRemoved ==
  \A e \in heEvents :
    e.origin = "holiday" =>
      \E name \in heHolidays :
        /\ HolidayDisplayName(name) = e.event_name
        /\ GetHolidayDate(name, heYear) = MkDate(heYear, e.month, e.day)

\* Request r's call of accept_invitation returns or raises in this step
AcceptCallEnds(r) == iReq[r].pc = "loaded" /\ iReq'[r].pc = "idle"

\* C30: an invitation is accepted at most once: a call of accept_invitation
\* on an invitation that is expired or already accepted raises ValueError,
\* creates no share and leaves accepted as it was; any other call sets
\* accepted and leaves the user's share in place; accepted never reverts.
C30_AcceptedAtMostOnce ==
  [][/\ iInv.accepted => iInv'.accepted
     /\ \A r \in Requests :
          AcceptCallEnds(r) =>
            IF iInv.expired \/ iInv.accepted
            THEN /\ iReq'[r].outcome \in {"ValueError_expired", "ValueError_accepted"}
                 /\ iShares' = iShares
                 /\ iInv'.accepted = iInv.accepted
            ELSE /\ iReq'[r].outcome = "accepted"
                 /\ iInv'.accepted
                 /\ iReq[r].user \in iShares']_vars

====
